---------------------------- MODULE Spec2Model ----------------------------
(***************************************************************************)
(* A model of obd2remote: the OBD acquisition loop of obdlink/obdlink.py   *)
(* (specification Spec), the loop under fair scheduling (SpecRecover), its *)
(* PID resolver over arbitrary command catalogs (SpecResolve), the unit    *)
(* conversion of query_int (SpecConvert), its unused retry helper          *)
(* query_int_retry (SpecRetry), the MQTT -> InfluxDB ingestion callback of *)
(* viewer/app/ingestor.py (SpecIngest), the shutdown of the ingestion      *)
(* process (SpecShutdown) and its subscription (SpecSubscribe).            *)
(*                                                                         *)
(* Conventions.  An optional value (Python None or a value) is a sequence  *)
(* of length 0 or 1.  Physical magnitudes are integers in thousandths of   *)
(* their unit; adapter_voltage_v is an integer in tenths of a volt.  The   *)
(* clock is in whole seconds.                                              *)
(***************************************************************************)
EXTENDS Integers, Sequences, FiniteSets, TLC

None == << >>
Some(v) == << v >>

\* ------------------------------------------------------------------ bounds
\* The clock stops advancing at MaxClock.
MaxClock == 7
\* SpecResolve explores every catalog of at most MaxCatalog names.
MaxCatalog == 5
\* SpecIngest processes at most MaxMsgs messages.
MaxMsgs == 2
\* SpecSubscribe follows at most MaxConnects calls of _on_connect.
MaxConnects == 4

\* ------------------------------------------------------ obdlink.py: tables
\* OBDReader.retry_delay, in seconds.
retry_delay == 3

PID_CANDIDATES ==
    [ SPEED        |-> << "SPEED" >>,
      THROTTLE     |-> << "THROTTLE_POS" >>,
      COOLANT_TEMP |-> << "COOLANT_TEMP", "ENGINE_COOLANT_TEMP" >>,
      INTAKE_TEMP  |-> << "INTAKE_TEMP", "INTAKE_AIR_TEMP", "AIR_TEMP",
                          "AMBIENT_AIR_TEMP", "AMBIANT_AIR_TEMP" >>,
      STFT         |-> << "STFT_BANK_1", "SHORT_FUEL_TRIM_1", "SHORT_FUEL_TRIM_BANK_1" >>,
      LTFT         |-> << "LTFT_BANK_1", "LONG_FUEL_TRIM_1", "LONG_FUEL_TRIM_BANK_1" >>,
      ADAPTER_VOLT |-> << "ELM_VOLTAGE", "ELM_VOLT" >> ]

LogicalNames == DOMAIN PID_CANDIDATES

Range(s) == { s[i] : i \in DOMAIN s }

\* Every alias any logical PID may resolve to.
AllAliases == UNION { Range(PID_CANDIDATES[n]) : n \in LogicalNames }

\* PID_CANDIDATES.get(name, []): the candidate list, empty for an unknown name.
Candidates(name) ==
    IF name \in LogicalNames THEN PID_CANDIDATES[name] ELSE << >>

\* A plausible slip of _resolve_cmd: the loop keeps going and returns the
\* last alias of the catalog instead of the first.
ResolveLast(cat, name) ==
    LET cands == Candidates(name)
        hits  == { i \in DOMAIN cands : cands[i] \in cat }
    IN  IF hits = {} THEN None
        ELSE Some(cands[CHOOSE i \in hits : \A j \in hits : j <= i])

\* _resolve_cmd(name) against the command catalog cat (the attribute names of
\* obd.commands): the first candidate, in list order, that the catalog has.
RECURSIVE ResolveFrom(_, _, _)
ResolveFrom(cat, cands, i) ==
    IF i > Len(cands) THEN None
    ELSE IF cands[i] \in cat THEN Some(cands[i])
    ELSE ResolveFrom(cat, cands, i + 1)

_resolve_cmd(cat, name) == ResolveFrom(cat, Candidates(name), 1)


\* ------------------------------------------------ obdlink.py: normalisation
\* Python's round() of a magnitude m given in thousandths: to the nearest
\* integer, a tie going to the even neighbour.
RoundHalfEven(m) ==
    LET q == m \div 1000
        r == m % 1000
    IN  IF r < 500 THEN q
        ELSE IF r > 500 THEN q + 1
        ELSE IF q % 2 = 0 THEN q ELSE q + 1

\* The units a response value may carry.  "num" is a bare Python number (no
\* .to, no .magnitude), "text" a value that is no number at all, "kPa" stands
\* for any dimension the code has no rule for.
Units == { "kph", "degC", "Lph", "V", "percent", "num", "kPa", "text" }

\* v.to(target) converts without error.
ConvertsTo(v, target) == v.unit = target

\* float(v) converts without error: a bare number or a dimensionless quantity.
FloatOk(v) == v.unit \in { "num", "percent" }

\* v has a magnitude attribute: a quantity, not a bare number or a text.
HasMagnitude(v) == v.unit \notin { "num", "text" }

\* A slip of the else branch: the raw magnitude is taken before the voltage
\* step, and read off the attribute without the float() default.
GenericConvertRawFirst(v) ==
    IF ConvertsTo(v, "degC") THEN Some(RoundHalfEven(v.mag))
    ELSE IF ConvertsTo(v, "kph") THEN Some(RoundHalfEven(v.mag))
    ELSE IF ConvertsTo(v, "Lph") THEN Some(RoundHalfEven(v.mag))
    ELSE IF HasMagnitude(v) \/ FloatOk(v) THEN Some(RoundHalfEven(v.mag))
    ELSE IF ConvertsTo(v, "V") THEN Some(v.mag)
    ELSE None

\* The conversion of query_int's else branch (lines 162-182): the first of
\* degC, kph, L/h, V (as millivolts), raw magnitude that converts; None when
\* the last step raises.
GenericConvert(v) ==
    IF ConvertsTo(v, "degC") THEN Some(RoundHalfEven(v.mag))
    ELSE IF ConvertsTo(v, "kph") THEN Some(RoundHalfEven(v.mag))
    ELSE IF ConvertsTo(v, "Lph") THEN Some(RoundHalfEven(v.mag))
    ELSE IF ConvertsTo(v, "V") THEN Some(v.mag)
    ELSE IF FloatOk(v) THEN Some(RoundHalfEven(v.mag))
    ELSE None

\* The conversion of lines 154-182 for command cmd and response value v: the
\* integer returned, or None when the conversion raises (the default argument
\* of getattr is evaluated before getattr is called).
Convert(cmd, v) ==
    IF cmd = "SPEED" THEN
        IF ConvertsTo(v, "kph") THEN Some(RoundHalfEven(v.mag)) ELSE None
    ELSE IF cmd = "THROTTLE_POS" THEN
        IF FloatOk(v) THEN Some(RoundHalfEven(v.mag)) ELSE None
    ELSE IF cmd = "COOLANT_TEMP" THEN
        IF ConvertsTo(v, "degC") THEN Some(RoundHalfEven(v.mag)) ELSE None
    ELSE GenericConvert(v)

\* --------------------------------------------------- obdlink.py: OBDReader
NoConn == "None"
Link == "link"

\* What the adapter does during one call of query_int: the answer of
\* is_connected(), of conn.query(cmd), and the value of a non-null response.
ProbeOutcomes == { "true", "false", "raise" }
RespOutcomes == { "value", "null", "raise" }

\* OBDReader.query_int(cmd) called with self.conn = cn while the adapter
\* behaves as o.  ret: the value returned (None when raised); conn: self.conn
\* afterwards; raised: an exception left the call; closed: conn.close() was
\* called; fault: the link raised an I/O error during the call; unconverted:
\* the response had a value that the conversion of lines 154-182 raised on.
\* The connectedness check of line 146 is outside the try block: what
\* is_connected() raises leaves the call.
query_int(cn, cmd, o) ==
    LET out(ret, c, raised, closed, fault, unconverted) ==
            [ ret |-> ret, conn |-> c, raised |-> raised, closed |-> closed,
              fault |-> fault, unconverted |-> unconverted ]
    IN  IF cn = NoConn THEN out(None, cn, FALSE, FALSE, FALSE, FALSE)
        ELSE IF o.probe = "raise" THEN out(None, cn, TRUE, FALSE, TRUE, FALSE)
        ELSE IF o.probe = "false" THEN out(None, cn, FALSE, FALSE, FALSE, FALSE)
        ELSE IF o.resp = "raise" THEN out(None, NoConn, FALSE, TRUE, TRUE, FALSE)
        ELSE IF o.resp = "null" THEN out(None, cn, FALSE, FALSE, FALSE, FALSE)
        ELSE IF Convert(cmd, o.value) = None THEN out(None, NoConn, FALSE, TRUE, FALSE, TRUE)
        ELSE out(Convert(cmd, o.value), cn, FALSE, FALSE, FALSE, FALSE)

\* What obd.OBD(...) and the status calls after it do in _connect.
ConnectOutcomes == { "ok", "error" }

\* OBDReader._connect(): self.conn afterwards.  "ok" covers a link to the
\* vehicle and an adapter-only link alike (lines 122-125 only log).
_connect(co) == IF co = "ok" THEN Link ELSE NoConn

\* A slip of ensure_connected: last_try is recorded only when the connect
\* succeeded, so a failed attempt does not open a retry window.
EnsureConnectedForgetsFailure(cn, lt, now, probe, co) ==
    LET afterProbe == IF cn # NoConn /\ probe = "raise" THEN NoConn ELSE cn
    IN  IF cn # NoConn /\ probe = "true" THEN
            [ conn |-> cn, last_try |-> lt, attempted |-> FALSE ]
        ELSE IF now - lt < retry_delay THEN
            [ conn |-> afterProbe, last_try |-> lt, attempted |-> FALSE ]
        ELSE
            [ conn |-> _connect(co),
              last_try |-> IF co = "ok" THEN now ELSE lt,
              attempted |-> TRUE ]

\* A slip of ensure_connected: last_try is set before the window test, so a
\* call inside the window opens a new window.
EnsureConnectedWindowFromNow(cn, lt, now, probe, co) ==
    LET afterProbe == IF cn # NoConn /\ probe = "raise" THEN NoConn ELSE cn
    IN  IF cn # NoConn /\ probe = "true" THEN
            [ conn |-> cn, last_try |-> lt, attempted |-> FALSE ]
        ELSE IF now - lt < retry_delay THEN
            [ conn |-> afterProbe, last_try |-> now, attempted |-> FALSE ]
        ELSE
            [ conn |-> _connect(co), last_try |-> now, attempted |-> TRUE ]

\* OBDReader.ensure_connected() called at clock value now with self.conn = cn
\* and self.last_try = lt; probe is the answer of is_connected(), co that of
\* the connect.  attempted: _connect() was called.
ensure_connected(cn, lt, now, probe, co) ==
    LET afterProbe == IF cn # NoConn /\ probe = "raise" THEN NoConn ELSE cn
    IN  IF cn # NoConn /\ probe = "true" THEN
            [ conn |-> cn, last_try |-> lt, attempted |-> FALSE ]
        ELSE IF now - lt < retry_delay THEN
            [ conn |-> afterProbe, last_try |-> lt, attempted |-> FALSE ]
        ELSE
            [ conn |-> _connect(co), last_try |-> now, attempted |-> TRUE ]

\* ------------------------------------------- obdlink.py: collect_datapoint
\* The logical PIDs in the order collect_datapoint queries them.
PidOrder == << "SPEED", "THROTTLE", "COOLANT_TEMP", "INTAKE_TEMP",
               "STFT", "LTFT", "ADAPTER_VOLT" >>

\* The first three are queried by attribute (OBD.SPEED, OBD.THROTTLE_POS,
\* OBD.COOLANT_TEMP), the others through _resolve_cmd.
CmdOf(cat, i) ==
    IF i = 1 THEN Some("SPEED")
    ELSE IF i = 2 THEN Some("THROTTLE_POS")
    ELSE IF i = 3 THEN Some("COOLANT_TEMP")
    ELSE _resolve_cmd(cat, PidOrder[i])

\* The record key of each logical PID.
FieldKey ==
    [ SPEED        |-> "speed_kmh",
      THROTTLE     |-> "throttle_percent",
      COOLANT_TEMP |-> "engine_temp_c",
      INTAKE_TEMP  |-> "air_temp_c",
      STFT         |-> "short_term_fuel_trim_percent",
      LTFT         |-> "long_term_fuel_trim_percent",
      ADAPTER_VOLT |-> "adapter_voltage_v" ]

Min(a, b) == IF a <= b THEN a ELSE b
Max(a, b) == IF a >= b THEN a ELSE b

\* A slip of the clamp: the upper bound is forgotten.
ClampLowOnly(lo, hi, x) == Max(lo, x)

\* max(lo, min(hi, x)) of lines 233, 240, 242.
Clamp(lo, hi, x) == Max(lo, Min(hi, x))

\* round(adapter_mv / 1000.0, 1), in tenths of a volt.  A millivolt value
\* half way between two tenths is rounded by the binary value of the float
\* quotient, which lies on either side: both neighbours are possible.
RoundTenths(mv) ==
    LET q == mv \div 100
        r == mv % 100
    IN  IF r < 50 THEN { q }
        ELSE IF r > 50 THEN { q + 1 }
        ELSE { q, q + 1 }

\* The value stored under the key of logical PID p for reading x (lines
\* 230-244); av is the rounded adapter voltage in tenths of a volt.
FieldValue(p, x, av) ==
    IF p = "THROTTLE" THEN Clamp(0, 100, x)
    ELSE IF p \in { "STFT", "LTFT" } THEN Clamp(-100, 100, x)
    ELSE IF p = "ADAPTER_VOLT" THEN Max(0, av)
    ELSE x

\* A slip of collect_datapoint: the tests "is not None" of lines 230-243 are
\* left out, so every key is stored, an absent reading as 0.
BuildDataAllKeys(t, vs, av) ==
    LET keys == { "timestamp" } \cup { FieldKey[p] : p \in Range(PidOrder) }
        pidOf(k) == CHOOSE p \in Range(PidOrder) : FieldKey[p] = k
    IN  [ k \in keys |->
            IF k = "timestamp" THEN t
            ELSE IF vs[pidOf(k)] = None THEN 0
            ELSE FieldValue(pidOf(k), vs[pidOf(k)][1], av) ]

\* The record collect_datapoint returns for timestamp t and readings vs.
BuildData(t, vs, av) ==
    LET present == { p \in Range(PidOrder) : vs[p] # None }
        keys == { "timestamp" } \cup { FieldKey[p] : p \in present }
        pidOf(k) == CHOOSE p \in present : FieldKey[p] = k
    IN  [ k \in keys |->
            IF k = "timestamp" THEN t ELSE FieldValue(pidOf(k), vs[pidOf(k)][1], av) ]

\* A slip of main's test: an off-by-one that lets the bare timestamp through.
ShouldPublishAlways(d) == Cardinality(DOMAIN d) > 0

\* main, line 268: len(data) > 1.
ShouldPublish(d) == Cardinality(DOMAIN d) > 1

\* ----------------------------------------------- obdlink.py: MQTTPublisher
\* What client.connect (with loop_start after it) and client.publish do.
MqttConnectOutcomes == { "ok", "error" }
MqttPublishOutcomes == { "ok", "error" }

\* A slip of MQTTPublisher.ensure_connected: no try, so what client.connect
\* raises leaves the call.
MqttEnsurePropagates(connected, loop, co) ==
    IF connected THEN [ loop |-> loop, raised |-> FALSE, did |-> "connected" ]
    ELSE IF co = "ok" THEN [ loop |-> TRUE, raised |-> FALSE, did |-> "ok" ]
    ELSE [ loop |-> loop, raised |-> TRUE, did |-> "error" ]

\* MQTTPublisher.ensure_connected() called with self.connected = connected
\* while the network loop is started or not.  loop: the network loop is
\* started afterwards; raised: an exception left the call; did: "connected"
\* when the call returned at line 92, else the outcome of the connect.
mqtt_ensure_connected(connected, loop, co) ==
    IF connected THEN [ loop |-> loop, raised |-> FALSE, did |-> "connected" ]
    ELSE IF co = "ok" THEN [ loop |-> TRUE, raised |-> FALSE, did |-> "ok" ]
    ELSE [ loop |-> loop, raised |-> FALSE, did |-> "error" ]

\* A slip of publish_json: no try, so what client.publish raises leaves the
\* call.
PublishJsonPropagates(connected, loop, co, po) ==
    LET e == mqtt_ensure_connected(connected, loop, co)
    IN  [ loop |-> e.loop, raised |-> po = "error",
          did |-> IF po = "ok" THEN "published" ELSE "failed" ]

\* MQTTPublisher.publish_json(payload): ensure_connected, json.dumps,
\* client.publish, all inside a try whose except branch logs.  did:
\* "published" when client.publish returned, "failed" when it raised.
publish_json(connected, loop, co, po) ==
    LET e == mqtt_ensure_connected(connected, loop, co)
    IN  [ loop |-> e.loop, raised |-> FALSE,
          did |-> IF po = "ok" THEN "published" ELSE "failed" ]

\* ------------------------------------------------------ obdlink.py: main
\* A slip of main: no except Exception branch, so an exception ends the loop.
AfterExceptionEndsLoop == "done"

\* main, lines 278-281: where the loop is after an exception in a cycle.
AfterException == "err_sleep"

\* ------------------------------------------------------------------- state
VARIABLES
    \* acquisition process (obdlink.py)
    pc,             \* position of main's loop
    clock,          \* time.time(), in seconds
    conn,           \* OBDReader.conn: NoConn or Link
    last_try,       \* OBDReader.last_try
    mqttConnected,  \* MQTTPublisher.connected
    mqttLoop,       \* client.loop_start() has run: the callbacks can fire
    adapterUp,      \* the adapter accepts connections and answers queries
    catalog,        \* the attribute names of obd.commands
    qi,             \* index in PidOrder of the next query of collect_datapoint
    vals,           \* collect_datapoint's readings so far, by logical PID
    ts,             \* collect_datapoint's ts
    data,           \* the record of the current cycle
    handed,         \* the record given to publish_json in this cycle, if any
    lastQ,          \* the last call of query_int in this cycle: its result,
                    \* self.conn before, the PID's index, is_connected()'s answer,
                    \* whether an earlier query of the cycle had an I/O error
    attemptAt,      \* clock value of the last call of _connect, if any
    prevAttemptAt,  \* clock value of the call of _connect before that, if any
    interrupted,    \* KeyboardInterrupt was raised in main's loop
    mqttTry,        \* what MQTTPublisher.ensure_connected did in this cycle
    lastProbe,      \* is_connected()'s answer in this cycle's ensure_connected
    pubOutcome,     \* what publish_json did in this cycle
    \* resolver under test (SpecResolve)
    resCat, resName, resOut,
    \* ingestion process (viewer/app/ingestor.py)
    iNow, msgCount, lastMsg, lastPoints, lastWrite, lastRaised, writeCalls,
    \* one call of query_int_retry (SpecRetry)
    rPc,            \* position in query_int_retry
    rRetries,       \* the argument retries
    rPid,           \* index in PidOrder of the PID queried
    rI,             \* the loop variable i
    rRets,          \* what the calls of query_int returned, in order
    rSleeps,        \* number of calls of time.sleep(delay)
    rRet,           \* the value returned, once returned
    \* one call of MQTTInfluxIngestor.stop (SpecShutdown)
    stopPc,         \* position of the main thread of runner.py
    stopLog,        \* the calls stop() has made, in order
    flushRaised,    \* write_api.flush() raised
    inFlight,       \* the message whose callback has started and not yet written
    writeAfterClose,\* write_api.write was called after influx.close()
    \* the conversion under test (SpecConvert)
    cvCmd, cvVal, cvOut,
    \* the ingestion's MQTT session (SpecSubscribe)
    iStarted,       \* start() has run: the network thread is running
    iConnected,     \* the broker has accepted the connection
    iSubscribed,    \* the broker holds the client's subscription
    subCalls,       \* number of calls of client.subscribe
    connects,       \* number of calls of _on_connect
    lastRc          \* the rc of the last call of _on_connect, if any

acqVars == << pc, clock, conn, last_try, mqttConnected, mqttLoop, adapterUp,
              catalog, qi, vals, ts, data, handed, lastQ, attemptAt, prevAttemptAt,
              interrupted, mqttTry, lastProbe, pubOutcome >>
resVars == << resCat, resName, resOut >>
ingVars == << iNow, msgCount, lastMsg, lastPoints, lastWrite, lastRaised, writeCalls >>
retVars == << rPc, rRetries, rPid, rI, rRets, rSleeps, rRet >>
stopVars == << stopPc, stopLog, flushRaised, inFlight, writeAfterClose >>
convVars == << cvCmd, cvVal, cvOut >>
subVars == << iStarted, iConnected, iSubscribed, subCalls, connects, lastRc >>
vars == << acqVars, resVars, ingVars, retVars, stopVars, convVars, subVars >>

NoData == [ k \in {} |-> 0 ]
NoVals == [ p \in Range(PidOrder) |-> None ]
NoQuery == [ ret |-> None, conn |-> NoConn, raised |-> FALSE, closed |-> FALSE,
             fault |-> FALSE, unconverted |-> FALSE, called |-> FALSE,
             before |-> NoConn, pid |-> 0, probe |-> "none", afterFault |-> FALSE ]

\* The command tables the acquisition runs against: python-OBD's, and one of
\* a runtime that only knows a late alias of the intake temperature.
Catalogs ==
    { { "SPEED", "THROTTLE_POS", "COOLANT_TEMP", "INTAKE_TEMP",
        "SHORT_FUEL_TRIM_1", "LONG_FUEL_TRIM_1", "ELM_VOLTAGE" },
      { "SPEED", "THROTTLE_POS", "COOLANT_TEMP", "AMBIANT_AIR_TEMP" } }

\* The response values the adapter may give for a logical PID.
Samples(p) ==
    IF p = "SPEED" THEN { [ unit |-> "kph", mag |-> 42400 ] }
    ELSE IF p = "THROTTLE" THEN { [ unit |-> "percent", mag |-> 137000 ],
                                  [ unit |-> "percent", mag |-> -5500 ] }
    ELSE IF p = "COOLANT_TEMP" THEN { [ unit |-> "degC", mag |-> 94500 ] }
    ELSE IF p = "INTAKE_TEMP" THEN { [ unit |-> "degC", mag |-> 20000 ],
                                     [ unit |-> "text", mag |-> 0 ] }
    ELSE IF p = "STFT" THEN { [ unit |-> "percent", mag |-> -250000 ],
                              [ unit |-> "percent", mag |-> 3100 ] }
    ELSE IF p = "LTFT" THEN { [ unit |-> "percent", mag |-> 250000 ] }
    ELSE { [ unit |-> "V", mag |-> 12350 ], [ unit |-> "V", mag |-> -120 ] }

\* What the adapter may do during one query of PID p: anything while it is
\* down, no I/O error while it is up.  A part of the outcome the call never
\* gets to (the response after a failed check, the value of a null response)
\* is fixed, so that each course of the call is listed once.
QueryOutcomes(p) ==
    LET any == CHOOSE v \in Samples(p) : TRUE
        all == { o \in [ probe : ProbeOutcomes, resp : RespOutcomes, value : Samples(p) ] :
                   /\ o.probe # "true" => o.resp = "null"
                   /\ o.resp # "value" => o.value = any }
    IN  { o \in all : adapterUp => (o.probe = "true" /\ o.resp # "raise") }

InitAcq ==
    /\ pc = "mqtt_ensure"
    /\ clock = retry_delay
    /\ conn = NoConn
    /\ last_try = 0
    /\ mqttConnected = FALSE
    /\ mqttLoop = FALSE
    /\ adapterUp \in BOOLEAN
    /\ catalog \in Catalogs
    /\ qi = 1
    /\ vals = NoVals
    /\ ts = 0
    /\ data = NoData
    /\ handed = None
    /\ lastQ = NoQuery
    /\ attemptAt = None
    /\ prevAttemptAt = None
    /\ interrupted = FALSE
    /\ mqttTry = "none"
    /\ lastProbe = "none"
    /\ pubOutcome = "none"

InitRes ==
    /\ resCat = {}
    /\ resName = "SPEED"
    /\ resOut = None

InitIng ==
    /\ iNow = 0
    /\ msgCount = 0
    /\ lastMsg = None
    /\ lastPoints = << >>
    /\ lastWrite = FALSE
    /\ lastRaised = FALSE
    /\ writeCalls = 0

\* query_int_retry has not been called.
InitRet ==
    /\ rPc = "idle"
    /\ rRetries = 0
    /\ rPid = 1
    /\ rI = 0
    /\ rRets = << >>
    /\ rSleeps = 0
    /\ rRet = None

\* runner.py's main blocks in its loop; no signal has arrived.
InitStop ==
    /\ stopPc = "running"
    /\ stopLog = << >>
    /\ flushRaised = FALSE
    /\ inFlight = None
    /\ writeAfterClose = FALSE

\* No conversion is under test.
InitConv ==
    /\ cvCmd = "SPEED"
    /\ cvVal = [ unit |-> "kph", mag |-> 0 ]
    /\ cvOut = None

\* MQTTInfluxIngestor after __init__: start() has not run.
InitSub ==
    /\ iStarted = FALSE
    /\ iConnected = FALSE
    /\ iSubscribed = FALSE
    /\ subCalls = 0
    /\ connects = 0
    /\ lastRc = None

\* The ingestion after start() and a first _on_connect(rc = 0).
InitSubRunning ==
    /\ iStarted = TRUE
    /\ iConnected = TRUE
    /\ iSubscribed = TRUE
    /\ subCalls = 1
    /\ connects = 1
    /\ lastRc = Some(0)

\* ----------------------------------------------------- obdlink.py: actions
\* MQTTPublisher.ensure_connected(), line 262: nothing when connected;
\* otherwise connect and loop_start, any error logged.  self.connected is
\* only set by the callbacks.
MqttEnsureConnected ==
    /\ pc = "mqtt_ensure"
    /\ \E co \in MqttConnectOutcomes :
        /\ mqttConnected => co = "ok"
        /\ LET r == mqtt_ensure_connected(mqttConnected, mqttLoop, co)
           IN  /\ mqttLoop' = r.loop
               /\ mqttTry' = r.did
               /\ pc' = IF r.raised THEN AfterException ELSE "obd_ensure"
    /\ UNCHANGED << clock, conn, last_try, mqttConnected, adapterUp, catalog, qi,
                    vals, ts, data, handed, lastQ, attemptAt, prevAttemptAt,
                    interrupted, lastProbe, pubOutcome >>
    /\ UNCHANGED << resVars, ingVars, retVars, stopVars, convVars, subVars >>

\* MQTTPublisher._on_connect(rc), on the client's network thread.
MqttOnConnect ==
    /\ mqttLoop
    /\ pc # "done"
    /\ \E rc \in { 0, 5 } : mqttConnected' = (rc = 0)
    /\ UNCHANGED << pc, clock, conn, last_try, mqttLoop, adapterUp, catalog, qi,
                    vals, ts, data, handed, lastQ, attemptAt, prevAttemptAt,
                    interrupted, mqttTry, lastProbe, pubOutcome >>
    /\ UNCHANGED << resVars, ingVars, retVars, stopVars, convVars, subVars >>

\* MQTTPublisher._on_disconnect(rc), on the client's network thread.
MqttOnDisconnect ==
    /\ mqttLoop
    /\ pc # "done"
    /\ mqttConnected' = FALSE
    /\ UNCHANGED << pc, clock, conn, last_try, mqttLoop, adapterUp, catalog, qi,
                    vals, ts, data, handed, lastQ, attemptAt, prevAttemptAt,
                    interrupted, mqttTry, lastProbe, pubOutcome >>
    /\ UNCHANGED << resVars, ingVars, retVars, stopVars, convVars, subVars >>

\* OBDReader.ensure_connected(), line 263.
OBDEnsureConnected ==
    /\ pc = "obd_ensure"
    /\ \E probe \in ProbeOutcomes, co \in ConnectOutcomes :
        /\ adapterUp => (probe = "true" /\ co = "ok")
        /\ conn = NoConn => probe = "true"
        /\ LET r == ensure_connected(conn, last_try, clock, probe, co)
           IN  /\ conn' = r.conn
               /\ last_try' = r.last_try
               /\ attemptAt' = IF r.attempted THEN Some(clock) ELSE attemptAt
               /\ prevAttemptAt' = IF r.attempted THEN attemptAt ELSE prevAttemptAt
        /\ lastProbe' = IF conn = NoConn THEN "none" ELSE probe
    /\ pc' = "collect"
    /\ UNCHANGED << clock, mqttConnected, mqttLoop, adapterUp, catalog, qi, vals,
                    ts, data, handed, lastQ,
                    interrupted, mqttTry, pubOutcome >>
    /\ UNCHANGED << resVars, ingVars, retVars, stopVars, convVars, subVars >>

\* collect_datapoint, lines 212-213: the timestamp and the fresh record.
CollectStart ==
    /\ pc = "collect"
    /\ ts' = clock
    /\ data' = [ k \in { "timestamp" } |-> clock ]
    /\ mqttTry' = "none"
    /\ lastProbe' = "none"
    /\ pc' = "query"
    /\ UNCHANGED << clock, conn, last_try, mqttConnected, mqttLoop, adapterUp,
                    catalog, qi, vals, handed, lastQ, attemptAt, prevAttemptAt,
                    interrupted, pubOutcome >>
    /\ UNCHANGED << resVars, ingVars, retVars, stopVars, convVars, subVars >>

\* collect_datapoint, lines 216-227: the query of the qi-th PID.  An
\* unresolved PID is not queried.  An exception leaving query_int leaves
\* collect_datapoint and is caught by main (line 278).
QueryStep ==
    /\ pc = "query"
    /\ LET p == PidOrder[qi]
           cmd == CmdOf(catalog, qi)
           next == IF qi = Len(PidOrder) THEN "assemble" ELSE "query"
       IN  IF cmd = None THEN
               /\ pc' = next
               /\ qi' = IF qi = Len(PidOrder) THEN qi ELSE qi + 1
               /\ UNCHANGED << conn, vals, lastQ >>
           ELSE
               \E o \in IF conn = NoConn THEN { CHOOSE x \in QueryOutcomes(p) : TRUE }
                         ELSE QueryOutcomes(p) :
                   LET r == query_int(conn, cmd[1], o)
                   IN  /\ lastQ' = [ ret |-> r.ret, conn |-> r.conn, raised |-> r.raised,
                                     closed |-> r.closed, fault |-> r.fault,
                                     unconverted |-> r.unconverted,
                                     called |-> TRUE, before |-> conn, pid |-> qi,
                                     probe |-> IF conn = NoConn THEN "none"
                                               ELSE o.probe,
                                     afterFault |-> lastQ.fault \/ lastQ.afterFault ]
                       /\ conn' = r.conn
                       /\ IF r.raised THEN
                              /\ pc' = AfterException
                              /\ UNCHANGED << vals, qi >>
                          ELSE
                              /\ pc' = next
                              /\ vals' = [ vals EXCEPT ![p] = r.ret ]
                              /\ qi' = IF qi = Len(PidOrder) THEN qi ELSE qi + 1
    /\ UNCHANGED << clock, last_try, mqttConnected, mqttLoop, adapterUp, catalog,
                    ts, data, handed, attemptAt, prevAttemptAt,
                    interrupted, mqttTry, lastProbe, pubOutcome >>
    /\ UNCHANGED << resVars, ingVars, retVars, stopVars, convVars, subVars >>

\* collect_datapoint, lines 228-246: the record.
Assemble ==
    /\ pc = "assemble"
    /\ \E av \in IF vals["ADAPTER_VOLT"] = None THEN { 0 }
                 ELSE RoundTenths(vals["ADAPTER_VOLT"][1]) :
        data' = BuildData(ts, vals, av)
    /\ pc' = "decide"
    /\ UNCHANGED << clock, conn, last_try, mqttConnected, mqttLoop, adapterUp,
                    catalog, qi, vals, ts, handed, lastQ, attemptAt, prevAttemptAt,
                    interrupted, mqttTry, lastProbe, pubOutcome >>
    /\ UNCHANGED << resVars, ingVars, retVars, stopVars, convVars, subVars >>

\* main, lines 268-272: publish_json(data) when the record has a measurement.
\* publish_json (lines 100-106) calls ensure_connected and client.publish and
\* logs whatever they raise.
PublishOrSkip ==
    /\ pc = "decide"
    /\ IF ShouldPublish(data) THEN
           /\ handed' = Some(data)
           /\ \E co \in MqttConnectOutcomes, po \in MqttPublishOutcomes :
               /\ mqttConnected => co = "ok"
               /\ LET r == publish_json(mqttConnected, mqttLoop, co, po)
                  IN  /\ mqttLoop' = r.loop
                      /\ pubOutcome' = r.did
                      /\ pc' = IF r.raised THEN AfterException ELSE "sleep"
       ELSE
           /\ pc' = "sleep"
           /\ UNCHANGED << handed, mqttLoop, pubOutcome >>
    /\ UNCHANGED << clock, conn, last_try, mqttConnected, adapterUp, catalog, qi,
                    vals, ts, data, lastQ, attemptAt, prevAttemptAt,
                    interrupted, mqttTry, lastProbe >>
    /\ UNCHANGED << resVars, ingVars, retVars, stopVars, convVars, subVars >>

\* The end of a cycle: collect_datapoint's locals and main's data are gone,
\* and the observations of the cycle (handed, lastQ, mqttTry, lastProbe,
\* pubOutcome) start afresh.
CycleReset ==
    /\ qi' = 1
    /\ vals' = NoVals
    /\ ts' = 0
    /\ data' = NoData
    /\ handed' = None
    /\ lastQ' = NoQuery
    /\ mqttTry' = "none"
    /\ lastProbe' = "none"
    /\ pubOutcome' = "none"

\* main, line 274: time.sleep(PUBLISH_INTERVAL), then the next cycle.
Sleep ==
    /\ pc = "sleep"
    /\ pc' = "mqtt_ensure"
    /\ CycleReset
    /\ UNCHANGED << clock, conn, last_try, mqttConnected, mqttLoop, adapterUp,
                    catalog, attemptAt, prevAttemptAt,
                    interrupted >>
    /\ UNCHANGED << resVars, ingVars, retVars, stopVars, convVars, subVars >>

\* main, lines 278-281: the error is logged, time.sleep(1.0), the next cycle.
ErrSleep ==
    /\ pc = "err_sleep"
    /\ pc' = "mqtt_ensure"
    /\ CycleReset
    /\ UNCHANGED << clock, conn, last_try, mqttConnected, mqttLoop, adapterUp,
                    catalog, attemptAt, prevAttemptAt,
                    interrupted >>
    /\ UNCHANGED << resVars, ingVars, retVars, stopVars, convVars, subVars >>

\* main, lines 275-277: KeyboardInterrupt ends the loop; main returns and
\* its locals are gone.  Nothing is closed or disconnected on the way out.
Interrupt ==
    /\ pc # "done"
    /\ pc' = "done"
    /\ interrupted' = TRUE
    /\ CycleReset
    /\ UNCHANGED << clock, conn, last_try, mqttConnected, mqttLoop, adapterUp,
                    catalog, attemptAt, prevAttemptAt >>
    /\ UNCHANGED << resVars, ingVars, retVars, stopVars, convVars, subVars >>

\* Time passes.  The clock is read at the start of OBDReader.ensure_connected
\* and of collect_datapoint only, so a second that passes anywhere else (in a
\* blocking call, in a sleep) is seen as one that passed before the next of
\* these reads.
Tick ==
    /\ pc \in { "obd_ensure", "collect" }
    /\ clock < MaxClock
    /\ clock' = clock + 1
    /\ UNCHANGED << pc, conn, last_try, mqttConnected, mqttLoop, adapterUp, catalog,
                    qi, vals, ts, data, handed, lastQ, attemptAt, prevAttemptAt,
                    interrupted, mqttTry, lastProbe, pubOutcome >>
    /\ UNCHANGED << resVars, ingVars, retVars, stopVars, convVars, subVars >>

\* The adapter is unplugged or powered down, or comes back.
AdapterFlip ==
    /\ pc # "done"
    /\ adapterUp' = ~adapterUp
    /\ UNCHANGED << pc, clock, conn, last_try, mqttConnected, mqttLoop, catalog, qi,
                    vals, ts, data, handed, lastQ, attemptAt, prevAttemptAt,
                    interrupted, mqttTry, lastProbe, pubOutcome >>
    /\ UNCHANGED << resVars, ingVars, retVars, stopVars, convVars, subVars >>

Next ==
    \/ MqttEnsureConnected
    \/ MqttOnConnect
    \/ MqttOnDisconnect
    \/ OBDEnsureConnected
    \/ CollectStart
    \/ QueryStep
    \/ Assemble
    \/ PublishOrSkip
    \/ Sleep
    \/ ErrSleep
    \/ Interrupt
    \/ Tick
    \/ AdapterFlip

Init == InitAcq /\ InitRes /\ InitIng /\ InitRet /\ InitStop /\ InitConv /\ InitSub

Spec == Init /\ [][Next]_vars

\* ------------------------------------------------- claims on the acquisition
Measurements(d) == DOMAIN d \ { "timestamp" }

\* C1: in every cycle that reaches its end, publish_json was called if and
\* only if the record has a field besides timestamp, and the record it was
\* called with is the cycle's record, never a bare timestamp.
C1_PublishIffMeasurement ==
    /\ pc = "sleep" => ((handed # None) <=> (Measurements(data) # {}))
    /\ handed # None => (handed = Some(data) /\ Measurements(handed[1]) # {})

\* C1: a cycle in which the last query failed hard and dropped the link, and
\* whose record, holding the earlier readings, was handed to the publisher.
C1_Witness ==
    /\ pc = "sleep"
    /\ handed # None
    /\ lastQ.fault
    /\ conn = NoConn

\* C2: whenever the link raised an I/O error during a call of query_int, the
\* call returned None, close() was called, self.conn is None afterwards, and
\* no exception left the call.
C2_QueryAbsorbsLinkErrors ==
    lastQ.fault =>
        /\ lastQ.ret = None
        /\ lastQ.closed
        /\ lastQ.conn = NoConn
        /\ ~lastQ.raised

\* C3: two successive calls of _connect are at least retry_delay apart, failed
\* ones included; and a call of ensure_connected less than retry_delay after
\* the last attempt opens no link and leaves last_try unchanged.
C3_ConnectAttemptsSpaced ==
    /\ [](prevAttemptAt # None => attemptAt[1] - prevAttemptAt[1] >= retry_delay)
    /\ [][ (pc = "obd_ensure" /\ pc' = "collect" /\ clock - last_try < retry_delay)
             => /\ last_try' = last_try
                /\ attemptAt' = attemptAt
                /\ (conn' = Link => conn = Link) ]_vars

\* C3: after two attempts a window apart, a call of ensure_connected made
\* while disconnected and inside the window of the second has returned
\* without connecting.
C3_Witness ==
    /\ pc = "collect"
    /\ prevAttemptAt # None
    /\ attemptAt[1] - prevAttemptAt[1] = retry_delay
    /\ clock > attemptAt[1]
    /\ clock - attemptAt[1] < retry_delay
    /\ conn = NoConn

NearestInRange(lo, hi, x) == IF x > hi THEN hi ELSE IF x < lo THEN lo ELSE x

\* C10: in every record, throttle_percent is in [0,100], the fuel trims are
\* in [-100,100] and adapter_voltage_v is at least 0; and once the record is
\* assembled, every reading of these PIDs is in it, an out-of-range one as
\* the nearest bound.
C10_ClampedRanges ==
    /\ "throttle_percent" \in DOMAIN data => data["throttle_percent"] \in 0..100
    /\ "short_term_fuel_trim_percent" \in DOMAIN data
          => data["short_term_fuel_trim_percent"] \in -100..100
    /\ "long_term_fuel_trim_percent" \in DOMAIN data
          => data["long_term_fuel_trim_percent"] \in -100..100
    /\ "adapter_voltage_v" \in DOMAIN data => data["adapter_voltage_v"] >= 0
    /\ pc \in { "decide", "sleep" } =>
          /\ vals["THROTTLE"] # None =>
                /\ "throttle_percent" \in DOMAIN data
                /\ data["throttle_percent"] = NearestInRange(0, 100, vals["THROTTLE"][1])
          /\ \A p \in { "STFT", "LTFT" } : vals[p] # None =>
                /\ FieldKey[p] \in DOMAIN data
                /\ data[FieldKey[p]] = NearestInRange(-100, 100, vals[p][1])
          /\ vals["ADAPTER_VOLT"] # None =>
                /\ "adapter_voltage_v" \in DOMAIN data
                /\ vals["ADAPTER_VOLT"][1] <= 0 => data["adapter_voltage_v"] = 0

\* C10: a record assembled from a throttle reading of 137, a short-term trim
\* of -250, a long-term trim of 250 and a negative adapter voltage.
C10_Witness ==
    /\ pc = "decide"
    /\ vals["THROTTLE"] = Some(137)
    /\ vals["STFT"] = Some(-250)
    /\ vals["LTFT"] = Some(250)
    /\ vals["ADAPTER_VOLT"] = Some(-120)
    /\ data["throttle_percent"] = 100
    /\ data["short_term_fuel_trim_percent"] = -100
    /\ data["long_term_fuel_trim_percent"] = 100
    /\ data["adapter_voltage_v"] = 0

\* C12: in each cycle, a first answer of None for SPEED, THROTTLE_POS or
\* COOLANT_TEMP is followed by another query of the same PID (the retry of
\* query_int_retry), while each of the other PIDs is queried once.
C12_PrimaryPidsRetried ==
    /\ [][ (/\ pc = "query" /\ qi \in 1 .. 3
             /\ lastQ.pid # qi
             /\ lastQ'.pid = qi /\ ~lastQ'.raised /\ lastQ'.ret = None)
             => (pc' = "query" /\ qi' = qi) ]_vars
    /\ [][ (pc = "query" /\ qi \in 4 .. Len(PidOrder) /\ lastQ'.pid = qi)
             => (qi' = qi + 1 \/ pc' \in { "assemble", "err_sleep" }) ]_vars

\* A step of main's thread while the loop runs.
MainStep ==
    \/ MqttEnsureConnected
    \/ OBDEnsureConnected
    \/ CollectStart
    \/ QueryStep
    \/ Assemble
    \/ PublishOrSkip
    \/ Sleep
    \/ ErrSleep

\* C13: the loop has ended only if KeyboardInterrupt was raised; while it has
\* not ended it has a next step; a step in which a call raised leaves the
\* loop in the handler of line 278, and the handler is followed by the start
\* of a full new cycle, with nothing left of the old one.
C13_LoopSurvivesErrors ==
    /\ [](pc = "done" => interrupted)
    /\ [](pc # "done" => ENABLED MainStep)
    /\ [][ (lastQ'.raised /\ lastQ' # lastQ) => pc' = "err_sleep" ]_vars
    /\ [][ (pc = "err_sleep" /\ pc' # pc /\ ~interrupted')
             => /\ pc' = "mqtt_ensure"
                /\ qi' = 1 /\ vals' = NoVals /\ data' = NoData /\ handed' = None ]_vars

\* C13: is_connected() raised in the query of the second PID of a cycle; the
\* exception was caught by main, which sleeps before the next cycle.
C13_Witness ==
    /\ pc = "err_sleep"
    /\ lastQ.raised
    /\ lastQ.pid = 2
    /\ ~interrupted

\* C14: whatever MQTTPublisher.ensure_connected did, the call of
\* OBDReader.ensure_connected follows it, and connects when the link is down
\* and the retry window is over; and every cycle, whatever the state of the
\* adapter and however the cycle before ended, starts with the call of
\* MQTTPublisher.ensure_connected, the only way to the adapter's.
C14_IndependentFailureDomains ==
    /\ [][ (pc = "mqtt_ensure" /\ pc' # pc /\ ~interrupted')
             => (pc' = "obd_ensure" /\ mqttTry' \in { "connected", "ok", "error" }) ]_vars
    /\ [][ (pc = "obd_ensure" /\ pc' # pc /\ ~interrupted')
             => /\ pc' = "collect"
                /\ (conn = NoConn /\ clock - last_try >= retry_delay)
                      => attemptAt' = Some(clock) ]_vars
    /\ [][ (pc \in { "sleep", "err_sleep" } /\ pc' # pc /\ ~interrupted')
             => pc' = "mqtt_ensure" ]_vars
    /\ [][ (pc' = "obd_ensure" /\ pc # "obd_ensure") => pc = "mqtt_ensure" ]_vars

\* C14: in a cycle after one in which the adapter could not be opened, the
\* broker could not be reached, and the adapter's ensure_connected was called
\* all the same and made its next attempt, which failed too.
C14_Witness ==
    /\ pc = "collect"
    /\ mqttTry = "error"
    /\ prevAttemptAt # None
    /\ attemptAt = Some(clock)
    /\ conn = NoConn

\* C15: a call of ensure_connected that finds the link object present and
\* is_connected() answering False changes nothing and opens no link; and a
\* call of query_int that finds the same returns None and leaves the link as
\* it is.
C15_DegradedLinkIsConnected ==
    /\ [][ (pc = "obd_ensure" /\ pc' = "collect" /\ conn = Link /\ lastProbe' = "false")
             => /\ conn' = conn
                /\ last_try' = last_try
                /\ attemptAt' = attemptAt ]_vars
    /\ [](lastQ.probe = "false"
             => /\ lastQ.ret = None
                /\ lastQ.conn = Link
                /\ ~lastQ.closed
                /\ ~lastQ.raised)

\* C16: a failure of the publish has not left the normal course of the
\* cycle; publish_json is called at most once in a cycle, with the record of
\* that cycle; and a new cycle starts with no record and no publish pending.
C16_PublishOnceNeverRaises ==
    /\ [](pubOutcome # "none" => (pc = "sleep" /\ handed = Some(data)))
    /\ [][ handed' # handed
             => \/ (pc = "decide" /\ handed = None /\ handed' = Some(data)
                    /\ pubOutcome' \in { "published", "failed" })
                \/ (pc \in { "sleep", "err_sleep" } /\ handed' = None)
                \/ interrupted' ]_vars
    /\ [](pc \in { "mqtt_ensure", "obd_ensure", "collect", "query", "assemble", "decide" }
             => (handed = None /\ pubOutcome = "none"))

\* C16: client.publish raised for a record with measurements; the loop is in
\* its normal sleep.
C16_Witness ==
    /\ pc = "sleep"
    /\ pubOutcome = "failed"
    /\ handed # None
    /\ Measurements(handed[1]) # {}
    /\ ~mqttConnected

\* C18: once the loop has ended on the interrupt, the network loop of the
\* MQTT client is stopped and the adapter link is closed.
C18_InterruptReleases ==
    pc = "done" => (conn = NoConn /\ ~mqttLoop)

\* C19: a call of query_int whose response value no conversion accepts
\* returns None, does not close the link and leaves self.conn as it was.
C19_UnconvertibleKeepsLink ==
    lastQ.unconverted =>
        /\ lastQ.ret = None
        /\ ~lastQ.raised
        /\ ~lastQ.closed
        /\ lastQ.conn = lastQ.before

\* C20: a hard fault in a query does not end the cycle early, and a query
\* made after a hard fault of the same cycle is made on a link, not answered
\* None without asking the adapter.
C20_FaultLeavesOtherPids ==
    /\ (lastQ.called /\ lastQ.fault) => pc # "err_sleep"
    /\ (lastQ.called /\ lastQ.afterFault) => lastQ.before = Link

\* The logical PIDs whose command the runtime's table does not have.
Unresolved == { PidOrder[i] : i \in { j \in 1 .. Len(PidOrder) : CmdOf(catalog, j) = None } }

\* C22: the record collect_datapoint has returned holds the timestamp read at
\* its start and the key of a PID exactly when the reading of that PID in
\* this cycle is not absent; a PID without a command contributes no key, and
\* at its turn no query is issued: unless the interrupt ends the run there,
\* the link, the readings and the last call of query_int stay as they were.
C22_RecordKeysMatchReadings ==
    /\ [](pc = "decide" =>
            /\ "timestamp" \in DOMAIN data /\ data["timestamp"] = ts
            /\ \A p \in Range(PidOrder) : FieldKey[p] \in DOMAIN data <=> vals[p] # None
            /\ DOMAIN data \subseteq { "timestamp" } \cup { FieldKey[p] : p \in Range(PidOrder) }
            /\ \A p \in Unresolved : FieldKey[p] \notin DOMAIN data)
    /\ [][(pc = "query" /\ CmdOf(catalog, qi) = None /\ ~interrupted')
            => (lastQ' = lastQ /\ conn' = conn /\ vals' = vals)]_vars

\* C22: a record with a reading present, a reading of a queried PID absent,
\* and a PID that has no command.
C22_Witness ==
    /\ pc = "decide"
    /\ \E p \in Range(PidOrder) : vals[p] # None
    /\ \E p \in Range(PidOrder) \ Unresolved : vals[p] = None
    /\ Unresolved # {}
    /\ lastQ.called

\* ------------------------------------------------------------ SpecRecover
\* The acquisition loop left to run: no interrupt, the MQTT client's network
\* thread left aside, the command table with four PIDs.  The main thread
\* keeps taking steps; time keeps passing, which the loop sees at its clock
\* reads (every turn of the loop sleeps); and an adapter that is up answers
\* the query of the vehicle speed on an open link with a value.
InitRecover ==
    /\ InitAcq /\ "ELM_VOLTAGE" \notin catalog
    /\ InitRes /\ InitIng /\ InitRet /\ InitStop /\ InitConv /\ InitSub

\* QueryStep against an adapter that answers: while it is up, the response
\* to SPEED on an open link is not null.
QueryStepAnswered ==
    /\ QueryStep
    /\ (adapterUp /\ conn = Link /\ qi = 1) => lastQ'.ret # None

NextRecover ==
    \/ MqttEnsureConnected
    \/ OBDEnsureConnected
    \/ CollectStart
    \/ QueryStepAnswered
    \/ Assemble
    \/ PublishOrSkip
    \/ Sleep
    \/ ErrSleep
    \/ Tick
    \/ AdapterFlip

SpecRecover ==
    /\ InitRecover
    /\ [][NextRecover]_vars
    /\ WF_vars(MainStep)
    /\ SF_vars(Tick)

\* The link is down after a fault or a failed connect, the adapter is up, and
\* the retry window ends within the time the model's clock covers.
DownAfterFault ==
    /\ adapterUp
    /\ conn = NoConn
    /\ last_try + retry_delay <= MaxClock

\* is_connected() raised in query_int: main is in its error sleep, the link
\* object still set, and the adapter is up.
CycleLostToFault ==
    /\ adapterUp
    /\ pc = "err_sleep"
    /\ conn = Link

\* C21: from a state in which the link is down after a fault, or in which a
\* fault has ended the cycle, and the adapter is up: unless the adapter goes
\* down again, the link is eventually open again, and a record with at least
\* one measurement is eventually handed to the publisher.
C21_RecoveryIsEventual ==
    /\ DownAfterFault ~> (~adapterUp \/ conn = Link)
    /\ (DownAfterFault \/ CycleLostToFault)
          ~> (~adapterUp \/ (pc = "sleep" /\ handed # None /\ Measurements(handed[1]) # {}))

\* C21: the second connect attempt, a retry window after a failed first one,
\* has opened the link, and a record read over it has been handed to the
\* publisher.
C21_Witness ==
    /\ pc = "sleep"
    /\ prevAttemptAt # None
    /\ attemptAt[1] - prevAttemptAt[1] >= retry_delay
    /\ conn = Link
    /\ handed # None
    /\ adapterUp

\* ------------------------------------------------------------ SpecResolve
\* _resolve_cmd applied to every logical name, and to a name PID_CANDIDATES
\* does not have, against every catalog of at most MaxCatalog aliases.
\* resOut is None before the call and Some(result) after it.
ResolveNames == LogicalNames \cup { "RPM" }

InitResolve ==
    /\ InitAcq /\ adapterUp /\ "ELM_VOLTAGE" \in catalog
    /\ InitIng /\ InitRet /\ InitStop /\ InitConv /\ InitSub
    /\ resCat \in { c \in SUBSET AllAliases : Cardinality(c) <= MaxCatalog }
    /\ resName \in ResolveNames
    /\ resOut = None

ResolveCall ==
    /\ resOut = None
    /\ resOut' = Some(_resolve_cmd(resCat, resName))
    /\ UNCHANGED << resCat, resName >>
    /\ UNCHANGED << acqVars, ingVars, retVars, stopVars, convVars, subVars >>

NextResolve == ResolveCall

SpecResolve == InitResolve /\ [][NextResolve]_vars

\* C9: the result of _resolve_cmd is the candidate at the least index of the
\* name's candidate list that the catalog has, and None when the catalog has
\* none of them or the name has no candidate list.
C9_ResolveFirstAlias ==
    resOut # None =>
        LET cands == Candidates(resName)
            hits  == { i \in DOMAIN cands : cands[i] \in resCat }
        IN  IF hits = {} THEN resOut[1] = None
            ELSE \E i \in hits :
                    /\ \A j \in hits : i <= j
                    /\ resOut[1] = Some(cands[i])

\* C9: the intake temperature resolved against a catalog that lacks the first
\* two aliases and has the third and the fourth.
C9_Witness ==
    /\ resName = "INTAKE_TEMP"
    /\ resCat = { "AIR_TEMP", "AMBIENT_AIR_TEMP" }
    /\ resOut = Some(Some("AIR_TEMP"))

\* ------------------------------------------------------------ SpecConvert
\* The conversion of query_int applied to one response value: each command
\* the loop may query, each unit, and magnitudes (in thousandths) on, below
\* and above a rounding tie.  cvOut is None before the call and Some(result)
\* after it; the result is None when the conversion raised.
ConvCommands == { "SPEED", "THROTTLE_POS", "COOLANT_TEMP", "INTAKE_TEMP",
                  "STFT_BANK_1", "LTFT_BANK_1", "ELM_VOLTAGE" }
DirectCommands == { "SPEED", "THROTTLE_POS", "COOLANT_TEMP" }
ConvMags == { 0, 499, 500, 1500, 12350, -5500 }

InitConvert ==
    /\ InitAcq /\ adapterUp /\ "ELM_VOLTAGE" \in catalog
    /\ InitRes /\ InitIng /\ InitRet /\ InitStop /\ InitSub
    /\ cvCmd \in ConvCommands
    /\ cvVal \in [ unit : Units, mag : ConvMags ]
    /\ cvOut = None

ConvertCall ==
    /\ cvOut = None
    /\ cvOut' = Some(Convert(cvCmd, cvVal))
    /\ UNCHANGED << cvCmd, cvVal >>
    /\ UNCHANGED << acqVars, resVars, ingVars, retVars, stopVars, subVars >>

NextConvert == ConvertCall

SpecConvert == InitConvert /\ [][NextConvert]_vars

\* The steps of the else branch in the order of lines 164-182, whether step
\* k converts v, and what it returns when it does.
ConvSteps == << "degC", "kph", "Lph", "V", "raw" >>
StepConverts(v, k) ==
    IF ConvSteps[k] = "raw" THEN FloatOk(v) ELSE ConvertsTo(v, ConvSteps[k])
StepResult(v, k) ==
    IF ConvSteps[k] = "V" THEN v.mag ELSE RoundHalfEven(v.mag)

\* C23: for a command without a rule of its own, when some step of Celsius,
\* km/h, liters per hour, volts (as millivolts), raw magnitude converts the
\* value, the result is the rounded result of the first such step in that
\* order, and of no later one.
C23_FirstConvertingStep ==
    (cvOut # None /\ cvCmd \notin DirectCommands) =>
        LET hits == { k \in DOMAIN ConvSteps : StepConverts(cvVal, k) }
        IN  hits # {} =>
                \E k \in hits :
                    /\ \A j \in hits : k <= j
                    /\ cvOut[1] = Some(StepResult(cvVal, k))

\* C23: the adapter voltage, 12.35 V, returned as 12350 millivolts by the
\* fourth step, the three before it having raised.
C23_Witness ==
    /\ cvCmd = "ELM_VOLTAGE"
    /\ cvVal = [ unit |-> "V", mag |-> 12350 ]
    /\ cvOut = Some(Some(12350))

\* -------------------------------------------------------------- SpecRetry
\* OBDReader.query_int_retry(cmd, retries, delay), which no code of the
\* repository calls: one call of it, for each value of retries and in each
\* state of the link, against an adapter that may go down and come back
\* between the attempts.
MaxRetries == 2
RetriesValues == -1 .. MaxRetries

\* range(max(1, retries + 1)), line 196: the number of turns of the loop.
RetryAttempts(retries) == Max(1, retries + 1)

\* A slip of line 200: the sleep is not guarded.
SleepsAfterAlways(i, retries) == TRUE

\* Line 200: whether time.sleep(delay) follows the i-th attempt.
SleepsAfter(i, retries) == i < retries

\* The reader after a first call of ensure_connected, which opened a link or
\* failed to; query_int_retry is called for SPEED or for the intake
\* temperature.
InitRetry ==
    /\ pc = "mqtt_ensure"
    /\ clock = retry_delay
    /\ conn \in { NoConn, Link }
    /\ last_try = retry_delay
    /\ mqttConnected = FALSE
    /\ mqttLoop = FALSE
    /\ adapterUp \in BOOLEAN
    /\ catalog \in Catalogs
    /\ qi = 1
    /\ vals = NoVals
    /\ ts = 0
    /\ data = NoData
    /\ handed = None
    /\ lastQ = NoQuery
    /\ attemptAt = Some(retry_delay)
    /\ prevAttemptAt = None
    /\ interrupted = FALSE
    /\ mqttTry = "none"
    /\ lastProbe = "none"
    /\ pubOutcome = "none"
    /\ InitRes /\ InitIng /\ InitStop /\ InitConv /\ InitSub
    /\ rPc = "call"
    /\ rRetries \in RetriesValues
    /\ rPid \in { 1, 4 }
    /\ rI = 0
    /\ rRets = << >>
    /\ rSleeps = 0
    /\ rRet = None

\* The end of a turn of the loop of line 196: the next turn, or line 202.
RetryAdvance ==
    IF rI + 1 < RetryAttempts(rRetries) THEN
        /\ rI' = rI + 1
        /\ rPc' = "call"
        /\ rRet' = rRet
    ELSE
        /\ rI' = rI
        /\ rPc' = "returned"
        /\ rRet' = None

\* Lines 197-200: one attempt.  What query_int raises leaves query_int_retry.
RetryCall ==
    /\ rPc = "call"
    /\ \E o \in IF conn = NoConn THEN { CHOOSE x \in QueryOutcomes(PidOrder[rPid]) : TRUE }
                ELSE QueryOutcomes(PidOrder[rPid]) :
        LET r == query_int(conn, CmdOf(catalog, rPid)[1], o)
        IN  /\ conn' = r.conn
            /\ rRets' = Append(rRets, r.ret)
            /\ IF r.raised THEN
                   /\ rPc' = "raised"
                   /\ UNCHANGED << rI, rRet >>
               ELSE IF r.ret # None THEN
                   /\ rPc' = "returned"
                   /\ rRet' = r.ret
                   /\ UNCHANGED rI
               ELSE IF SleepsAfter(rI, rRetries) THEN
                   /\ rPc' = "sleep"
                   /\ UNCHANGED << rI, rRet >>
               ELSE RetryAdvance
    /\ UNCHANGED << rRetries, rPid, rSleeps >>
    /\ UNCHANGED << pc, clock, last_try, mqttConnected, mqttLoop, adapterUp, catalog,
                    qi, vals, ts, data, handed, lastQ, attemptAt, prevAttemptAt,
                    interrupted, mqttTry, lastProbe, pubOutcome >>
    /\ UNCHANGED << resVars, ingVars, stopVars, convVars, subVars >>

\* Line 201: time.sleep(delay), then the end of the turn.
RetrySleep ==
    /\ rPc = "sleep"
    /\ rSleeps' = rSleeps + 1
    /\ RetryAdvance
    /\ UNCHANGED << rRetries, rPid, rRets >>
    /\ UNCHANGED << acqVars, resVars, ingVars, stopVars, convVars, subVars >>

NextRetry ==
    \/ RetryCall
    \/ RetrySleep
    \/ AdapterFlip

SpecRetry == InitRetry /\ [][NextRetry]_vars

\* What the claim on query_int_retry says of a call that may make at most
\* most attempts: that bound on the calls of query_int; a call that returned
\* a value returned that of its last attempt, all earlier ones having
\* returned None; a call returned None only after attempts that all returned
\* None; each sleep was followed by an attempt, so that none came after the
\* last one.
RetryContract(most) ==
    /\ Len(rRets) <= most
    /\ (rPc = "returned" /\ rRet # None) =>
          /\ rRets[Len(rRets)] = rRet
          /\ \A j \in 1 .. Len(rRets) - 1 : rRets[j] = None
    /\ (rPc = "returned" /\ rRet = None) =>
          /\ Len(rRets) >= 1
          /\ \A j \in 1 .. Len(rRets) : rRets[j] = None
    /\ rPc \in { "returned", "raised" } => rSleeps = Len(rRets) - 1
    /\ rPc = "call" => rSleeps = Len(rRets)
    /\ rPc = "sleep" => rSleeps = Len(rRets) - 1

\* C11: query_int_retry called with retries calls query_int at most
\* retries + 1 times, stops at and returns the first result that is not None,
\* returns None only when every call returned None, and sleeps only between
\* two attempts.
C11_RetryStopsAtFirstValue == RetryContract(rRetries + 1)

\* C11, amended: the same with at most max(1, retries + 1) calls, that is one
\* call when retries is negative; and a call that returned None made exactly
\* that many.
C11_RetryAtLeastOnce ==
    /\ RetryContract(RetryAttempts(rRetries))
    /\ (rPc = "returned" /\ rRet = None) => Len(rRets) = RetryAttempts(rRetries)

\* C11: a call with retries = 2 whose first two attempts returned None, which
\* slept twice and returned the value of the third.
C11_Witness ==
    /\ rPc = "returned"
    /\ rRetries = 2
    /\ Len(rRets) = 3
    /\ rRets[1] = None
    /\ rRets[2] = None
    /\ rRet # None
    /\ rSleeps = 2

\* ----------------------------------------------- ingestor.py: _on_message
\* ts_sec * 1_000_000_000, line 48.
NsPerSec == 1000000000

\* A JSON value: a type tag t and, for the types that denote a number, the
\* number n.  "int": the integer n.  "float": n tenths (n = 429 is 42.9).
\* "numstr": a string int() accepts, denoting n.  "str": any other string.
\* "bool": n is 0 or 1.  "nan": NaN or an infinity, which json.loads accepts.
\* "null" and "list" (an array or a nested object) denote no number.
JInt(n) == [ t |-> "int", n |-> n ]
JFloat(n) == [ t |-> "float", n |-> n ]
JNumStr(n) == [ t |-> "numstr", n |-> n ]
JOther(t) == [ t |-> t, n |-> 0 ]

\* int(x) of a float given in tenths: towards zero.
TruncTenths(n) == IF n >= 0 THEN n \div 10 ELSE -((-n) \div 10)

\* Python's int(v): the integer, or None when int raises (TypeError,
\* ValueError, OverflowError).
IntCoerce(v) ==
    IF v.t \in { "int", "numstr", "bool" } THEN Some(v.n)
    ELSE IF v.t = "float" THEN Some(TruncTenths(v.n))
    ELSE None

\* The keys of a message, in the order the callback iterates them.
KeyOrder == << "timestamp", "speed_kmh", "bogus" >>

\* Point("obd").tag("key", k).field("v", iv).time(ts_ns).
Point(k, iv, ts_ns) == [ measurement |-> "obd", key |-> k, v |-> iv, time |-> ts_ns ]

\* The loop of lines 51-60 from the i-th key on: one point per field other
\* than timestamp whose value int() accepts.
RECURSIVE PointsFrom(_, _, _)
PointsFrom(fields, ts_ns, i) ==
    IF i > Len(KeyOrder) THEN << >>
    ELSE LET k == KeyOrder[i]
             rest == PointsFrom(fields, ts_ns, i + 1)
         IN  IF k \notin DOMAIN fields \/ k = "timestamp" THEN rest
             ELSE IF IntCoerce(fields[k]) = None THEN rest
             ELSE << Point(k, IntCoerce(fields[k])[1], ts_ns) >> \o rest

Quiet == [ points |-> << >>, wrote |-> FALSE, raised |-> FALSE ]

\* A slip of _on_message: no outer try, so what json.loads, data.get, int()
\* of the timestamp or write raise leaves the callback.
OnMessageNoOuterTry(m, now, writeRaises) ==
    IF m.kind # "record" THEN [ Quiet EXCEPT !.raised = TRUE ]
    ELSE
        LET tsv == IF "timestamp" \in DOMAIN m.fields
                   THEN IntCoerce(m.fields["timestamp"]) ELSE Some(now)
        IN  IF tsv = None THEN [ Quiet EXCEPT !.raised = TRUE ]
            ELSE LET pts == PointsFrom(m.fields, tsv[1] * NsPerSec, 1)
                 IN  [ points |-> pts, wrote |-> pts # << >>,
                       raised |-> pts # << >> /\ writeRaises ]

\* MQTTInfluxIngestor._on_message for payload m at clock value now; the write
\* call raises or not.  points: the points built; wrote: write_api.write was
\* called (with points); raised: an exception left the callback.
\* A payload that is empty or no JSON fails in json.loads, JSON that is no
\* object in data.get, an unconvertible timestamp in int() of line 47: all
\* inside the outer try, whose except branch passes.
_on_message(m, now, writeRaises) ==
    IF m.kind # "record" THEN Quiet
    ELSE
        LET tsv == IF "timestamp" \in DOMAIN m.fields
                   THEN IntCoerce(m.fields["timestamp"]) ELSE Some(now)
        IN  IF tsv = None THEN Quiet
            ELSE LET pts == PointsFrom(m.fields, tsv[1] * NsPerSec, 1)
                 IN  [ points |-> pts, wrote |-> pts # << >>, raised |-> FALSE ]

\* The values a message may hold under timestamp and under the other keys.
\* Times stay at 1 or 2 seconds so that their nanoseconds are 32-bit integers.
TimestampValues ==
    { JInt(2), JFloat(17), JNumStr(1), JOther("str"), JOther("null") }
SpeedValues ==
    { JInt(42), JFloat(429), JFloat(-5), JNumStr(7), JOther("str") }
BogusValues ==
    { JOther("str"), JOther("null"), JOther("list"), JOther("nan"),
      [ t |-> "bool", n |-> 1 ] }
ValuesOf(k) ==
    IF k = "timestamp" THEN TimestampValues
    ELSE IF k = "speed_kmh" THEN SpeedValues
    ELSE BogusValues

\* The JSON objects over the keys of KeyOrder.
Records ==
    UNION { { f \in [ ks -> TimestampValues \cup SpeedValues \cup BogusValues ] :
                \A k \in ks : f[k] \in ValuesOf(k) } : ks \in SUBSET Range(KeyOrder) }

\* The payloads: empty, not JSON, JSON that is no object, or an object.
Payloads ==
    { [ kind |-> c, fields |-> NoData ] : c \in { "empty", "garbage", "scalar" } }
      \cup { [ kind |-> "record", fields |-> f ] : f \in Records }

Nows == { 1, 2 }

InitIngest ==
    /\ InitAcq /\ adapterUp /\ "ELM_VOLTAGE" \in catalog
    /\ InitRes /\ InitRet /\ InitStop /\ InitConv /\ InitSubRunning
    /\ iNow = 1
    /\ msgCount = 0
    /\ lastMsg = None
    /\ lastPoints = << >>
    /\ lastWrite = FALSE
    /\ lastRaised = FALSE
    /\ writeCalls = 0

\* The client's network thread, a daemon thread, delivers a message of the
\* set P to _on_message.  The thread delivers the next one only if the
\* callback returned, and runs until the process ends.
OnMessageFrom(P) ==
    /\ msgCount < MaxMsgs
    /\ ~lastRaised
    /\ stopPc \notin { "exited", "crashed" }
    /\ \E m \in P, writeRaises \in BOOLEAN :
        LET r == _on_message(m, iNow, writeRaises)
        IN  /\ writeRaises => r.wrote
            /\ lastMsg' = Some([ payload |-> m, now |-> iNow ])
            /\ lastPoints' = r.points
            /\ lastWrite' = r.wrote
            /\ lastRaised' = r.raised
            /\ writeCalls' = IF r.wrote THEN writeCalls + 1 ELSE writeCalls
    /\ msgCount' = msgCount + 1
    /\ UNCHANGED iNow
    /\ UNCHANGED << acqVars, resVars, retVars, stopVars, convVars, subVars >>

OnMessage == OnMessageFrom(Payloads)

\* Time passes in the ingestion process.
IngTick ==
    /\ \E t \in Nows : t > iNow /\ iNow' = t
    /\ UNCHANGED << msgCount, lastMsg, lastPoints, lastWrite, lastRaised, writeCalls >>
    /\ UNCHANGED << acqVars, resVars, retVars, stopVars, convVars, subVars >>

NextIngest ==
    \/ OnMessage
    \/ IngTick

SpecIngest == InitIngest /\ [][NextIngest]_vars

\* ----------------------------------------- runner.py, ingestor.py: shutdown
\* runner.py's main thread receives SIGINT or SIGTERM and runs _shutdown:
\* ingestor.stop(), then sys.exit(0), while the network thread goes on
\* delivering messages.  stopLog lists the calls stop() has made.
FlushOutcomes == { "ok", "raise" }
CallOutcomes == { "ok", "raise" }

\* The full course of stop(), lines 77-82.
StopCalls == << "flush", "disconnect", "close" >>

\* A slip of stop(): the flush is not in a try, so what it raises leaves
\* stop() and, through the signal handler, ends main.
AfterFlushUnguarded(fo) == IF fo = "raise" THEN "crashed" ELSE "disconnect"

\* ingestor.py lines 77-80: where stop() is after write_api.flush().
AfterFlush(fo) == "disconnect"

\* The messages that arrive during the shutdown: one that is written and one
\* that is not JSON.
ShutdownPayloads ==
    { [ kind |-> "garbage", fields |-> NoData ],
      [ kind |-> "record", fields |-> [ k \in { "speed_kmh" } |-> JInt(42) ] ] }

\* _on_message on the network thread, lines 43-47: a message is delivered
\* and the callback has read the clock.  inFlight holds the message while the
\* callback runs.  After client.disconnect() the loop delivers no further
\* message; the thread is not joined, and nothing reads self._stop.
OnMessageBegin ==
    /\ msgCount < MaxMsgs
    /\ ~lastRaised
    /\ stopPc \notin { "exited", "crashed" }
    /\ "disconnect" \notin Range(stopLog)
    /\ inFlight = None
    /\ \E m \in ShutdownPayloads : inFlight' = Some([ payload |-> m, now |-> iNow ])
    /\ msgCount' = msgCount + 1
    /\ UNCHANGED << stopPc, stopLog, flushRaised, writeAfterClose >>
    /\ UNCHANGED << iNow, lastMsg, lastPoints, lastWrite, lastRaised, writeCalls >>
    /\ UNCHANGED << acqVars, resVars, retVars, convVars, subVars >>

\* _on_message, lines 49-66: the points are built and write_api.write is
\* called, at whatever point of stop() the main thread is; the daemon thread
\* ends with the process.  writeAfterClose: a write call was issued after
\* influx.close() had been called.
OnMessageEnd ==
    /\ inFlight # None
    /\ stopPc \notin { "exited", "crashed" }
    /\ \E writeRaises \in BOOLEAN :
        LET r == _on_message(inFlight[1].payload, inFlight[1].now, writeRaises)
        IN  /\ writeRaises => r.wrote
            /\ lastMsg' = inFlight
            /\ lastPoints' = r.points
            /\ lastWrite' = r.wrote
            /\ lastRaised' = r.raised
            /\ writeCalls' = IF r.wrote THEN writeCalls + 1 ELSE writeCalls
            /\ writeAfterClose' = (writeAfterClose \/ (r.wrote /\ "close" \in Range(stopLog)))
    /\ inFlight' = None
    /\ UNCHANGED << stopPc, stopLog, flushRaised >>
    /\ UNCHANGED << iNow, msgCount >>
    /\ UNCHANGED << acqVars, resVars, retVars, convVars, subVars >>

\* The signal arrives: _shutdown calls stop(), which sets self._stop.
Signal ==
    /\ stopPc = "running"
    /\ stopPc' = "flush"
    /\ UNCHANGED << stopLog, flushRaised, inFlight, writeAfterClose >>
    /\ UNCHANGED << acqVars, resVars, ingVars, retVars, convVars, subVars >>

\* stop(), lines 77-80: write_api.flush() inside try / except: pass.
StopFlush ==
    /\ stopPc = "flush"
    /\ \E fo \in FlushOutcomes :
        /\ flushRaised' = (fo = "raise")
        /\ stopPc' = AfterFlush(fo)
    /\ stopLog' = Append(stopLog, "flush")
    /\ UNCHANGED << inFlight, writeAfterClose >>
    /\ UNCHANGED << acqVars, resVars, ingVars, retVars, convVars, subVars >>

\* stop(), line 81: client.disconnect().  What it raises leaves stop() and
\* _shutdown and ends main with a traceback.
StopDisconnect ==
    /\ stopPc = "disconnect"
    /\ \E o \in CallOutcomes : stopPc' = IF o = "raise" THEN "crashed" ELSE "close"
    /\ stopLog' = Append(stopLog, "disconnect")
    /\ UNCHANGED << flushRaised, inFlight, writeAfterClose >>
    /\ UNCHANGED << acqVars, resVars, ingVars, retVars, convVars, subVars >>

\* stop(), line 82: influx.close().
StopClose ==
    /\ stopPc = "close"
    /\ \E o \in CallOutcomes : stopPc' = IF o = "raise" THEN "crashed" ELSE "exit"
    /\ stopLog' = Append(stopLog, "close")
    /\ UNCHANGED << flushRaised, inFlight, writeAfterClose >>
    /\ UNCHANGED << acqVars, resVars, ingVars, retVars, convVars, subVars >>

\* _shutdown: sys.exit(0) after stop() returned.
Exit ==
    /\ stopPc = "exit"
    /\ stopPc' = "exited"
    /\ UNCHANGED << stopLog, flushRaised, inFlight, writeAfterClose >>
    /\ UNCHANGED << acqVars, resVars, ingVars, retVars, convVars, subVars >>

NextShutdown ==
    \/ OnMessageBegin
    \/ OnMessageEnd
    \/ IngTick
    \/ Signal
    \/ StopFlush
    \/ StopDisconnect
    \/ StopClose
    \/ Exit

SpecShutdown == InitIngest /\ [][NextShutdown]_vars

IsPrefix(s, t) == Len(s) <= Len(t) /\ \A i \in DOMAIN s : s[i] = t[i]

\* C17: the calls stop() has made are a beginning of flush, disconnect,
\* close, each made once and in that order; when _shutdown has returned from
\* stop() all three were made; and a stop() that did not return was ended by
\* the disconnect or the close, never by the flush, so that a flush that
\* raised is followed by the disconnect and the close.
C17_StopFlushesThenReleases ==
    /\ IsPrefix(stopLog, StopCalls)
    /\ stopPc \in { "exit", "exited" } => stopLog = StopCalls
    /\ stopPc = "crashed" => Len(stopLog) >= 2
    /\ flushRaised => stopPc \in { "disconnect", "close", "exit", "exited", "crashed" }
    /\ stopPc = "disconnect" => stopLog = << "flush" >>
    /\ stopPc = "close" => stopLog = << "flush", "disconnect" >>

\* C17: a shutdown in which the flush raised, a message had been written
\* before, and the process exited after the disconnect and the close.
C17_Witness ==
    /\ stopPc = "exited"
    /\ flushRaised
    /\ stopLog = StopCalls
    /\ writeCalls >= 1

\* C24: however stop() on the main thread and the message callback on the
\* network thread interleave, no write call is issued after influx.close()
\* has been called.
C24_NoWriteAfterClose == ~writeAfterClose

\* ---------------------------------------------------------- SpecSubscribe
\* The ingestion's transport from start() on: the client's loop connects,
\* reports each CONNACK to _on_connect, loses the connection and connects
\* again.  iConnected: the broker has accepted the connection; iSubscribed:
\* subscribe was called on the connection in place; subCalls counts the calls
\* of client.subscribe, connects those of _on_connect.
ConnackCodes == { 0, 5 }

\* A slip of _on_connect: the return code is not looked at.
OnConnectIgnoresRc(rc) == TRUE

\* _on_connect, lines 31-36: client.subscribe(config.MQTT_TOPIC) is called.
_on_connect(rc) == rc = 0

InitSubscribe ==
    /\ InitAcq /\ adapterUp /\ "ELM_VOLTAGE" \in catalog
    /\ InitRes /\ InitRet /\ InitStop /\ InitConv /\ InitSub
    /\ iNow = 1
    /\ msgCount = 0
    /\ lastMsg = None
    /\ lastPoints = << >>
    /\ lastWrite = FALSE
    /\ lastRaised = FALSE
    /\ writeCalls = 0

\* start(), lines 68-73: connect, then the loop thread.  What connect raises
\* leaves start() before the thread exists, and nothing of the model moves.
IngStart ==
    /\ ~iStarted
    /\ iStarted' = TRUE
    /\ UNCHANGED << iConnected, iSubscribed, subCalls, connects, lastRc >>
    /\ UNCHANGED << acqVars, resVars, ingVars, retVars, stopVars, convVars >>

\* The loop thread receives a CONNACK, after the connect of start() or after
\* one of its own reconnects, and calls _on_connect(rc).
IngOnConnect ==
    /\ iStarted
    /\ ~iConnected
    /\ connects < MaxConnects
    /\ \E rc \in ConnackCodes :
        /\ lastRc' = Some(rc)
        /\ iConnected' = (rc = 0)
        /\ iSubscribed' = _on_connect(rc)
        /\ subCalls' = IF _on_connect(rc) THEN subCalls + 1 ELSE subCalls
    /\ connects' = connects + 1
    /\ UNCHANGED iStarted
    /\ UNCHANGED << acqVars, resVars, ingVars, retVars, stopVars, convVars >>

\* The connection is lost: _on_disconnect (lines 38-40) does nothing, and
\* the broker drops the subscription of the clean session with it.
IngOnDisconnect ==
    /\ iConnected
    /\ iConnected' = FALSE
    /\ iSubscribed' = FALSE
    /\ UNCHANGED << iStarted, subCalls, connects, lastRc >>
    /\ UNCHANGED << acqVars, resVars, ingVars, retVars, stopVars, convVars >>

\* The broker delivers a message of the topic, which it does to a connected
\* client that subscribed.
OnMessageSubscribed ==
    /\ iConnected
    /\ iSubscribed
    /\ OnMessageFrom(ShutdownPayloads)

NextSubscribe ==
    \/ IngStart
    \/ IngOnConnect
    \/ IngOnDisconnect
    \/ OnMessageSubscribed
    \/ IngTick

SpecSubscribe == InitSubscribe /\ [][NextSubscribe]_vars

\* C25: every call of _on_connect with return code 0, the first and each
\* one after a reconnect, calls subscribe once; a call with another return
\* code does not; subscribe is called nowhere else; so in every state in
\* which the transport is connected, subscribe was called on that connection.
C25_SubscribedWhenConnected ==
    /\ [](iConnected => iSubscribed)
    /\ [][ ((connects' = connects + 1 /\ lastRc' = Some(0))
                => (subCalls' = subCalls + 1 /\ iSubscribed'))
            /\ ((connects' = connects + 1 /\ lastRc' # Some(0))
                => (subCalls' = subCalls /\ ~iSubscribed'))
            /\ ((connects' = connects) => (subCalls' = subCalls)) ]_vars

\* C25: connected and subscribed for the second time, after a lost
\* connection and a refused reconnect.
C25_Witness ==
    /\ iConnected
    /\ iSubscribed
    /\ subCalls = 2
    /\ connects = 3
    /\ lastRc = Some(0)
    /\ msgCount >= 1

\* --------------------------------------------------- claims on the ingestion
\* The keys of a record, other than timestamp, whose value int() accepts.
Coercible(f) == { k \in DOMAIN f \ { "timestamp" } : IntCoerce(f[k]) # None }

IsRecord == lastMsg # None /\ lastMsg[1].payload.kind = "record"

\* C4: for every message that parses as a record, the callback builds exactly
\* one point per field other than timestamp whose value coerces to an
\* integer, tagged with the field's key and carrying the coerced value,
\* whatever the other fields of the message hold.
C4_OnePointPerCoercibleField ==
    IsRecord =>
        LET f == lastMsg[1].payload.fields
        IN  /\ Len(lastPoints) = Cardinality(Coercible(f))
            /\ \A k \in Coercible(f) :
                  \E i \in DOMAIN lastPoints :
                      /\ lastPoints[i].key = k
                      /\ lastPoints[i].v = IntCoerce(f[k])[1]

\* A payload from which no point can come: empty, not JSON, JSON that is no
\* object, or an object none of whose fields coerces.
NoSurvivor(m) == m.kind # "record" \/ Coercible(m.fields) = {}

\* C5: a message from which no point can come causes no write call and no
\* exception, so the thread that runs the callback goes on to the next
\* message.
C5_BadInputIsQuiet ==
    (lastMsg # None /\ NoSurvivor(lastMsg[1].payload)) =>
        /\ ~lastWrite
        /\ ~lastRaised
        /\ lastPoints = << >>

\* C5: a payload that is not JSON, processed without a write after an earlier
\* message had been written.
C5_Witness ==
    /\ msgCount = 2
    /\ writeCalls = 1
    /\ lastMsg # None
    /\ lastMsg[1].payload.kind = "garbage"
    /\ ~lastWrite
    /\ ~lastRaised

\* A JSON number.
Numeric(v) == v.t \in { "int", "float" }

\* C6: for every message that parses as a record, the points of all its
\* valid fields are built and each carries the time NsPerSec times the
\* message's timestamp in seconds, which is the current time when the
\* timestamp key is missing or its value is not numeric.
C6_TimestampDefaultsToNow ==
    IsRecord =>
        LET f == lastMsg[1].payload.fields
            sec == IF "timestamp" \notin DOMAIN f \/ ~Numeric(f["timestamp"])
                   THEN lastMsg[1].now
                   ELSE IntCoerce(f["timestamp"])[1]
        IN  /\ Len(lastPoints) = Cardinality(Coercible(f))
            /\ \A i \in DOMAIN lastPoints : lastPoints[i].time = sec * NsPerSec

=============================================================================
